---- MODULE Spec2Model ----
(***************************************************************************)
(* Model of the pixel-art engine of src/python/pixel_art_engine.py         *)
(* (PixelSprite, AnimatedSprite) and of create_pixel_grid of               *)
(* src/pixel_art_manim.py.                                                 *)
(*                                                                         *)
(* Python floats are IEEE 754 binary64.  The time values of                *)
(* AnimatedSprite.update are modelled bit-exactly: a non-negative double   *)
(* is the record [hi, lo] standing for (hi * 2^30 + lo) * 2^-57, and every *)
(* arithmetic result is rounded to 53 significant bits, ties to even, as   *)
(* the hardware does.  Every double >= 2^-5 (and 0) is a multiple of 2^-57,*)
(* and sums and differences of such multiples round to such multiples, so  *)
(* the representation is exact for frame rates up to 32 Hz and times below *)
(* 8 seconds, which covers the bounds used below.                          *)
(***************************************************************************)
EXTENDS Integers, Sequences, FiniteSets, TLC

(***************************************************************************)
(* State.                                                                  *)
(*   first, sprite, made : the first and the latest object built by        *)
(*       PixelSprite(...) or create_pixel_grid(...), and how many were     *)
(*       built (mario_stand ... goomba of main(); mario, mario_gameboy ... *)
(*       of PixelArtScene.construct)                                       *)
(*   reskinned : whether an object built after the first one used another  *)
(*       palette than the first (the palette swaps of construct)           *)
(*   frames, fps, current_frame, time_accumulator : the fields of the      *)
(*       AnimatedSprite                                                    *)
(*   call  : the last call on the AnimatedSprite and how it ended          *)
(*   before: current_frame and time_accumulator when that call began       *)
(*   dts   : the arguments of the update calls so far                      *)
(*   shown : what the last read of .surface returned                       *)
(*   sheet : the image the last save_spritesheet wrote                     *)
(***************************************************************************)
VARIABLES first, sprite, made, reskinned,
          frames, fps, current_frame, time_accumulator,
          call, before, dts, shown, sheet

rasterVars == <<first, sprite, made, reskinned>>
animVars   == <<frames, fps, current_frame, time_accumulator>>
vars == <<first, sprite, made, reskinned, frames, fps, current_frame, time_accumulator,
          call, before, dts, shown, sheet>>


(***************************************************************************)
(* IEEE 754 binary64 arithmetic on non-negative values.                    *)
(***************************************************************************)
MantBits == 53            \* significand width of a Python float
Limb     == 2^30          \* lo ranges over 0 .. Limb-1
FracHi   == 27            \* hi counts units of 2^-27, lo units of 2^-57

FZero == [hi |-> 0, lo |-> 0]

RECURSIVE BitLen(_)
BitLen(n) == IF n = 0 THEN 0 ELSE 1 + BitLen(n \div 2)

FLen(x) == IF x.hi > 0 THEN 30 + BitLen(x.hi) ELSE BitLen(x.lo)

Norm(h, l) == [hi |-> h + (l \div Limb), lo |-> l % Limb]

\* Round the exact value x + (r/d) * 2^-57, 0 <= r < d, to 53 significant
\* bits, round-half-to-even.
RoundSticky(x, r, d) ==
    LET drop == FLen(x) - MantBits
    IN  IF drop <= 0
        THEN LET up == (2 * r > d) \/ (2 * r = d /\ x.lo % 2 = 1)
             IN  Norm(x.hi, x.lo + (IF up THEN 1 ELSE 0))
        ELSE LET u    == 2^drop
                 rem  == x.lo % u
                 odd  == (x.lo \div u) % 2 = 1
                 up   == (2 * rem > u) \/ (2 * rem = u /\ (r > 0 \/ odd))
             IN  Norm(x.hi, (x.lo - rem) + (IF up THEN u ELSE 0))

Round(x) == RoundSticky(x, 0, 1)

\* a + b
FAdd(a, b) == Round(Norm(a.hi + b.hi, a.lo + b.lo))

\* a >= b
FGe(a, b) == a.hi > b.hi \/ (a.hi = b.hi /\ a.lo >= b.lo)

\* a - b, for a >= b
FSub(a, b) ==
    Round(IF a.lo >= b.lo
          THEN [hi |-> a.hi - b.hi,     lo |-> a.lo - b.lo]
          ELSE [hi |-> a.hi - b.hi - 1, lo |-> a.lo + Limb - b.lo])

\* The first k binary digits q of r / d (0 <= r < d < 2^16) and the
\* remainder they leave, by long division, ChunkBits digits at a time.
ChunkBits == 15

RECURSIVE LongDiv(_, _, _)
LongDiv(r, d, k) ==
    IF k = 0 THEN [q |-> 0, r |-> r]
    ELSE LET c    == IF k > ChunkBits THEN ChunkBits ELSE k
             rest == LongDiv((r * 2^c) % d, d, k - c)
         IN  [q |-> ((r * 2^c) \div d) * 2^(k - c) + rest.q, r |-> rest.r]

\* n / d for integers n >= 0, d >= 1: Python's true division, correctly rounded.
FDiv(n, d) ==
    LET p1 == LongDiv(n % d, d, FracHi)
        p2 == LongDiv(p1.r, d, 30)
    IN  RoundSticky([hi |-> (n \div d) * 2^FracHi + p1.q, lo |-> p2.q], p2.r, d)


(***************************************************************************)
(* Sprite data and palettes: the inputs of PixelSprite and                 *)
(* create_pixel_grid.  A row is a tuple of one-character symbols; the      *)
(* grids are small cut-outs in the alphabet of SPRITES.                    *)
(***************************************************************************)
MaxScale == 2   \* scale factors -1 .. MaxScale are tried

Background == <<0, 0, 0>>     \* a new pygame.Surface is filled with black

PaletteMario ==
    [c \in {"0", "1", "2", "3"} |->
        CASE c = "0" -> <<148, 148, 255>>
          [] c = "1" -> <<240, 172, 63>>
          [] c = "2" -> <<185, 39, 22>>
          [] c = "3" -> <<115, 103, 2>>]

PaletteGoomba ==
    [c \in {"0", "1", "2"} |->
        CASE c = "0" -> <<148, 148, 255>>
          [] c = "1" -> <<172, 92, 45>>
          [] c = "2" -> <<255, 255, 255>>]

\* A palette in which two symbols share a colour, and one maps to black.
PaletteShared ==
    [c \in {"0", "1", "2"} |->
        CASE c = "0" -> <<85, 85, 85>>
          [] c = "1" -> <<85, 85, 85>>
          [] c = "2" -> <<0, 0, 0>>]

Palettes == {PaletteMario, PaletteGoomba, PaletteShared}

GridSquare == << <<"0", "1">>, <<"1", "0">> >>
GridHat    == << <<"2", "3">>, <<"3", "1">> >>
GridRow    == << <<"0", "3", "2">> >>
GridRagged == << <<"1">>, <<"2", "3">> >>
GridEmpty  == << >>

Grids == {GridSquare, GridHat, GridRow, GridRagged, GridEmpty}

Scales == (-1) .. MaxScale

(***************************************************************************)
(* Surfaces.  A surface is [w, h, px] with px[<<x, y>>] the colour of the  *)
(* pixel in column x, row y (both from 0).                                 *)
(***************************************************************************)
Pixels(w, h) == (0 .. w - 1) \X (0 .. h - 1)

NoSurface == [w |-> 0, h |-> 0, px |-> [p \in {} |-> Background]]

\* A surface that is not cleared: the pixels of the previous render show
\* through (a faulty variant of Surface, which C8 must detect).
SurfaceReused(w, h) ==
    [w |-> w, h |-> h,
     px |-> [p \in Pixels(w, h) |->
                IF p \in DOMAIN sprite.surface.px THEN sprite.surface.px[p]
                ELSE Background]]

\* pygame.Surface((w, h)): a fresh surface, every pixel black.
Surface(w, h) == [w |-> w, h |-> h, px |-> [p \in Pixels(w, h) |-> Background]]

\* pygame.Rect(left, top, width, height)
Rect(left, top, width, height) ==
    [left |-> left, top |-> top, width |-> width, height |-> height]

InRect(p, rect) ==
    /\ rect.left <= p[1] /\ p[1] < rect.left + rect.width
    /\ rect.top  <= p[2] /\ p[2] < rect.top  + rect.height

\* pygame.draw.rect(surf, color, rect): fills the rect, clipped to the surface.
draw_rect(surf, color, rect) ==
    [surf EXCEPT !.px = [p \in DOMAIN @ |-> IF InRect(p, rect) THEN color ELSE @[p]]]

\* A cell drawn as one pixel, whatever the scale (a faulty
\* variant of RenderCell, which C6 must detect).
RenderCellUnscaled(surf, palette, scale, x, y, pixel) ==
    IF pixel \in DOMAIN palette
    THEN draw_rect(surf, palette[pixel], Rect(x * scale, y * scale, 1, 1))
    ELSE surf

\* A symbol missing from the palette drawn in the palette's colour for "0"
\* (palette.get(pixel, palette["0"]): a faulty variant of RenderCell, which C7
\* must detect).
RenderCellDefault(surf, palette, scale, x, y, pixel) ==
    draw_rect(surf,
              IF pixel \in DOMAIN palette THEN palette[pixel] ELSE palette["0"],
              Rect(x * scale, y * scale, scale, scale))

\* The body of the inner loop of _render for the cell in column x, row y
\* (both from 0) holding the symbol pixel.
RenderCell(surf, palette, scale, x, y, pixel) ==
    IF pixel \in DOMAIN palette
    THEN draw_rect(surf, palette[pixel], Rect(x * scale, y * scale, scale, scale))
    ELSE surf

\* for x, pixel in enumerate(row): the cells x, x+1, ... of the row.
RECURSIVE RenderRow(_, _, _, _, _, _)
RenderRow(surf, palette, scale, row, x, y) ==
    IF x >= Len(row) THEN surf
    ELSE RenderRow(RenderCell(surf, palette, scale, x, y, row[x + 1]),
                   palette, scale, row, x + 1, y)

\* for y, row in enumerate(self.data): the rows y, y+1, ...
RECURSIVE RenderRows(_, _, _, _, _)
RenderRows(surf, palette, scale, data, y) ==
    IF y >= Len(data) THEN surf
    ELSE RenderRows(RenderRow(surf, palette, scale, data[y + 1], 0, y),
                    palette, scale, data, y + 1)

\* PixelSprite._render
_render(data, palette, width, height, scale) ==
    RenderRows(Surface(width * scale, height * scale), palette, scale, data, 0)

\* PixelSprite(data, palette, scale): the object constructed, or the
\* exception raised (err); no object exists when err # "ok".
PixelSprite(data, palette, scale) ==
    IF Len(data) = 0
    THEN [kind |-> "PixelSprite", data |-> data, palette |-> palette, scale |-> scale,
          width |-> 0, height |-> 0, surface |-> NoSurface, squares |-> <<>>,
          err |-> "IndexError"]
    ELSE LET width  == Len(data[1])
             height == Len(data)
         IN  IF width * scale < 0 \/ height * scale < 0
             THEN [kind |-> "PixelSprite", data |-> data, palette |-> palette,
                   scale |-> scale, width |-> width, height |-> height,
                   surface |-> NoSurface, squares |-> <<>>, err |-> "pygame.error"]
             ELSE [kind |-> "PixelSprite", data |-> data, palette |-> palette,
                   scale |-> scale, width |-> width, height |-> height,
                   surface |-> _render(data, palette, width, height, scale),
                   squares |-> <<>>, err |-> "ok"]

(***************************************************************************)
(* create_pixel_grid of pixel_art_manim.py: one Square per cell whose      *)
(* symbol is in the palette, in row-major order.  A square is recorded by  *)
(* its metadata pixel_x, pixel_y, pixel_char and its fill colour.          *)
(***************************************************************************)
RECURSIVE GridRowSquares(_, _, _, _, _)
GridRowSquares(pixels, palette, row, x, y) ==
    IF x >= Len(row) THEN pixels
    ELSE LET char == row[x + 1]
         IN  GridRowSquares(
                 IF char \notin DOMAIN palette THEN pixels
                 ELSE Append(pixels, [pixel_x |-> x, pixel_y |-> y,
                                      pixel_char |-> char, fill_color |-> palette[char]]),
                 palette, row, x + 1, y)

RECURSIVE GridSquares(_, _, _, _)
GridSquares(pixels, palette, pixel_data, y) ==
    IF y >= Len(pixel_data) THEN pixels
    ELSE GridSquares(GridRowSquares(pixels, palette, pixel_data[y + 1], 0, y),
                     palette, pixel_data, y + 1)

create_pixel_grid(pixel_data, palette) ==
    [kind |-> "VGroup", data |-> pixel_data, palette |-> palette, scale |-> 1,
     width |-> IF Len(pixel_data) > 0 THEN Len(pixel_data[1]) ELSE 0,
     height |-> Len(pixel_data), surface |-> NoSurface,
     squares |-> GridSquares(<<>>, palette, pixel_data, 0), err |-> "ok"]

NoObject ==
    [kind |-> "none", data |-> <<>>, palette |-> [c \in {} |-> Background], scale |-> 0,
     width |-> 0, height |-> 0, surface |-> NoSurface, squares |-> <<>>, err |-> "none"]



(***************************************************************************)
(* Frames handed to AnimatedSprite: three small PixelSprites of different  *)
(* sizes (1x1, 2x1, 1x2), built by the constructor above.                  *)
(***************************************************************************)
FramePool ==
    << PixelSprite(<< <<"1">> >>, PaletteMario, 1),
       PixelSprite(<< <<"2", "3">> >>, PaletteMario, 1),
       PixelSprite(<< <<"1">>, <<"2">> >>, PaletteGoomba, 1) >>

\* [mario_stand, mario_walk1, mario_walk2, mario_walk1][:n], over the pool.
WalkCycle(n) == [i \in 1 .. n |-> FramePool[((i - 1) % Len(FramePool)) + 1]]

\* All lists of at most n frames of the pool.
RECURSIVE FrameLists(_)
FrameLists(n) ==
    IF n = 0 THEN {<<>>}
    ELSE LET shorter == FrameLists(n - 1)
         IN  shorter \cup {Append(l, f) : l \in shorter, f \in {FramePool[i] : i \in DOMAIN FramePool}}

(***************************************************************************)
(* AnimatedSprite.update: the while loop, from the accumulator acc and the *)
(* index idx on, for n = len(self.frames).  The result is the state the    *)
(* call leaves and how it ends.                                            *)
(***************************************************************************)
RECURSIVE UpdateLoop(_, _, _, _)
UpdateLoop(acc, idx, frame_duration, n) ==
    IF ~FGe(acc, frame_duration)
    THEN [time_accumulator |-> acc, current_frame |-> idx, result |-> "ok"]
    ELSE LET acc2 == FSub(acc, frame_duration)
         IN  IF n = 0      \* (self.current_frame + 1) % 0
             THEN [time_accumulator |-> acc2, current_frame |-> idx,
                   result |-> "ZeroDivisionError"]
             ELSE UpdateLoop(acc2, (idx + 1) % n, frame_duration, n)

\* update(dt) on the sprite (acc, idx, n frames, rate f).
\*   f = 0: 1.0 / self.fps raises after the accumulator was increased.
\*   f < 0: frame_duration < 0 <= time_accumulator, so the loop condition
\*          holds on entry and, the body only increasing the accumulator,
\*          for ever: the first pass raises when n = 0, otherwise the call
\*          never returns ("hung"; the state then shown is that after the
\*          first pass).
update(acc, idx, n, f, dt) ==
    LET acc1 == FAdd(acc, dt)
    IN  IF f = 0
        THEN [time_accumulator |-> acc1, current_frame |-> idx,
              result |-> "ZeroDivisionError"]
        ELSE IF f < 0
        THEN LET acc2 == FAdd(acc1, FDiv(1, -f))
             IN  IF n = 0
                 THEN [time_accumulator |-> acc2, current_frame |-> idx,
                       result |-> "ZeroDivisionError"]
                 ELSE [time_accumulator |-> acc2, current_frame |-> (idx + 1) % n,
                       result |-> "hung"]
        ELSE UpdateLoop(acc1, idx, FDiv(1, f), n)

(***************************************************************************)
(* AnimatedSprite.save_spritesheet: the sheet surface.                     *)
(***************************************************************************)
\* dest.blit(src, (ox, oy)): copies src onto dest, clipped to dest.
blit(dest, src, ox, oy) ==
    [dest EXCEPT !.px =
        [p \in DOMAIN @ |->
            IF <<p[1] - ox, p[2] - oy>> \in DOMAIN src.px
            THEN src.px[<<p[1] - ox, p[2] - oy>>]
            ELSE @[p]]]

\* for i, frame in enumerate(self.frames): the frames i, i+1, ...
RECURSIVE BlitFrames(_, _, _, _)
BlitFrames(surf, fr, width, i) ==
    IF i >= Len(fr) THEN surf
    ELSE BlitFrames(blit(surf, fr[i + 1].surface, i * width, 0), fr, width, i + 1)

\* The sheet of a non-empty frame list.
Spritesheet(fr) ==
    LET width  == fr[1].surface.w
        height == fr[1].surface.h
    IN  BlitFrames(Surface(width * Len(fr), height), fr, width, 0)


MaxMade    == 3   \* objects built in one run of the raster specification
MaxFps     == 5   \* frame rates -1 .. MaxFps are given to the constructor
MaxFrames  == 3   \* the walk cycle is cut to 0 .. MaxFrames frames
MaxK       == 3   \* dt = k / fps and dt = k / 2 for k in 0 .. MaxK
MaxUpdates == 2   \* calls of update on one AnimatedSprite
MaxSheetFrames == 2   \* frame lists of the sheet specification

DefaultFps == 8   \* fps: int = 8

NoCall == [op |-> "none", result |-> "none"]

Init ==
    /\ first = NoObject
    /\ sprite = NoObject
    /\ made = 0
    /\ reskinned = FALSE
    /\ frames = <<>>
    /\ fps = 0
    /\ current_frame = 0
    /\ time_accumulator = FZero
    /\ call = NoCall
    /\ before = [current_frame |-> 0, time_accumulator |-> FZero]
    /\ dts = <<>>
    /\ shown = NoSurface
    /\ sheet = NoSurface


(***************************************************************************)
(* Raster operations.                                                      *)
(***************************************************************************)
NewPixelSprite ==
    \E data \in Grids, palette \in Palettes, scale \in Scales :
        /\ made < MaxMade
        /\ sprite' = PixelSprite(data, palette, scale)
        /\ first' = IF made = 0 THEN sprite' ELSE first
        /\ made' = made + 1
        /\ reskinned' = (reskinned \/ (made > 0 /\ palette # first.palette))
        /\ UNCHANGED <<animVars, call, before, dts, shown, sheet>>

CreatePixelGrid ==
    \E pixel_data \in Grids, palette \in Palettes :
        /\ made < MaxMade
        /\ sprite' = create_pixel_grid(pixel_data, palette)
        /\ first' = IF made = 0 THEN sprite' ELSE first
        /\ made' = made + 1
        /\ reskinned' = (reskinned \/ (made > 0 /\ palette # first.palette))
        /\ UNCHANGED <<animVars, call, before, dts, shown, sheet>>

NextRaster == NewPixelSprite \/ CreatePixelGrid

SpecRaster == Init /\ [][NextRaster]_vars

(***************************************************************************)
(* AnimatedSprite operations.                                              *)
(***************************************************************************)
\* AnimatedSprite(frames, fps), for the walk cycle cut to n frames
NewAnimatedSprite ==
    \E n \in 0 .. MaxFrames, f \in (-1) .. MaxFps :
        /\ call.op = "none"
        /\ frames' = WalkCycle(n)
        /\ fps' = f
        /\ current_frame' = 0
        /\ time_accumulator' = FZero
        /\ call' = [op |-> "__init__", result |-> "ok"]
        /\ UNCHANGED <<rasterVars, before, dts, shown, sheet>>

\* The times passed to update: k frame durations (k / fps), and halves of a second.
Dts == {FDiv(k, 2) : k \in 0 .. MaxK}
         \cup (IF fps > 0 THEN {FDiv(k, fps) : k \in 0 .. MaxK} ELSE {})

\* sprite.update(dt)
Update ==
    /\ call.op # "none"
    /\ call.result # "hung"
    /\ Len(dts) < MaxUpdates
    /\ \E dt \in Dts :
        /\ LET r == update(time_accumulator, current_frame, Len(frames), fps, dt)
           IN  /\ time_accumulator' = r.time_accumulator
               /\ current_frame' = r.current_frame
               /\ call' = [op |-> "update", result |-> r.result]
        /\ before' = [current_frame |-> current_frame,
                      time_accumulator |-> time_accumulator]
        /\ dts' = Append(dts, dt)
        /\ UNCHANGED <<rasterVars, frames, fps, shown, sheet>>

NextAnim == NewAnimatedSprite \/ Update

SpecAnim == Init /\ [][NextAnim]_vars

(***************************************************************************)
(* The sheet specification: any frame list, the default frame rate.        *)
(***************************************************************************)
SheetFrameLists == FrameLists(MaxSheetFrames)

\* AnimatedSprite(frames), fps left at its default
NewAnimatedSpriteDefault ==
    \E fr \in SheetFrameLists :
        /\ call.op = "none"
        /\ frames' = fr
        /\ fps' = DefaultFps
        /\ current_frame' = 0
        /\ time_accumulator' = FZero
        /\ call' = [op |-> "__init__", result |-> "ok"]
        /\ UNCHANGED <<rasterVars, before, dts, shown, sheet>>

\* A faulty variant of the surface property that steps to the next frame after
\* the read.
ReadSurfaceAdvancing ==
    /\ call.op # "none"
    /\ call.result # "hung"
    /\ IF current_frame < Len(frames)
       THEN /\ shown' = frames[current_frame + 1].surface
            /\ current_frame' = (current_frame + 1) % Len(frames)
            /\ call' = [op |-> "surface", result |-> "ok"]
       ELSE /\ shown' = shown
            /\ current_frame' = current_frame
            /\ call' = [op |-> "surface", result |-> "IndexError"]
    /\ before' = [current_frame |-> current_frame, time_accumulator |-> time_accumulator]
    /\ UNCHANGED <<rasterVars, frames, fps, time_accumulator, dts, sheet>>

\* sprite.surface
ReadSurface ==
    /\ call.op # "none"
    /\ call.result # "hung"
    /\ IF current_frame < Len(frames)
       THEN /\ shown' = frames[current_frame + 1].surface
            /\ call' = [op |-> "surface", result |-> "ok"]
       ELSE /\ shown' = shown
            /\ call' = [op |-> "surface", result |-> "IndexError"]
    /\ before' = [current_frame |-> current_frame, time_accumulator |-> time_accumulator]
    /\ UNCHANGED <<rasterVars, animVars, dts, sheet>>

\* A faulty variant of save_spritesheet that guards the empty list by writing
\* an empty 0x0 sheet instead of raising.
SaveSpritesheetEmptySheet ==
    /\ call.op # "none"
    /\ call.result # "hung"
    /\ sheet' = IF Len(frames) = 0 THEN Surface(0, 0) ELSE Spritesheet(frames)
    /\ call' = [op |-> "save_spritesheet", result |-> "ok"]
    /\ before' = [current_frame |-> current_frame, time_accumulator |-> time_accumulator]
    /\ UNCHANGED <<rasterVars, animVars, dts, shown>>

\* sprite.save_spritesheet(filename)
SaveSpritesheet ==
    /\ call.op # "none"
    /\ call.result # "hung"
    /\ IF Len(frames) = 0
       THEN /\ sheet' = sheet
            /\ call' = [op |-> "save_spritesheet", result |-> "IndexError"]
       ELSE /\ sheet' = Spritesheet(frames)
            /\ call' = [op |-> "save_spritesheet", result |-> "ok"]
    /\ before' = [current_frame |-> current_frame, time_accumulator |-> time_accumulator]
    /\ UNCHANGED <<rasterVars, animVars, dts, shown>>

NextSheet == NewAnimatedSpriteDefault \/ Update \/ ReadSurface \/ SaveSpritesheet

SpecSheet == Init /\ [][NextSheet]_vars

(***************************************************************************)
(* Claims about PixelSprite and create_pixel_grid (SpecRaster).            *)
(***************************************************************************)
\* rows >= 1, all rows as long as the first, scale >= 1
ValidSprite(data, scale) ==
    /\ Len(data) >= 1
    /\ \A y \in 1 .. Len(data) : Len(data[y]) = Len(data[1])
    /\ scale >= 1

\* The pixels of the scale x scale block of the cell in column x, row y (from 0).
Block(x, y, scale) ==
    {<<x * scale + dx, y * scale + dy>> : dx \in 0 .. scale - 1, dy \in 0 .. scale - 1}

\* C6: for a valid sprite and scale >= 1 the constructor succeeds, the surface
\* is exactly (width*scale) x (height*scale), and every pixel of the block of
\* a cell whose symbol is in the palette has the palette's colour for it.
C6_RenderMagnifies ==
    (sprite.kind = "PixelSprite" /\ ValidSprite(sprite.data, sprite.scale)) =>
        /\ sprite.err = "ok"
        /\ sprite.width = Len(sprite.data[1])
        /\ sprite.height = Len(sprite.data)
        /\ sprite.surface.w = sprite.width * sprite.scale
        /\ sprite.surface.h = sprite.height * sprite.scale
        /\ DOMAIN sprite.surface.px = Pixels(sprite.surface.w, sprite.surface.h)
        /\ \A y \in 1 .. Len(sprite.data) : \A x \in 1 .. Len(sprite.data[y]) :
              sprite.data[y][x] \in DOMAIN sprite.palette =>
                  \A p \in Block(x - 1, y - 1, sprite.scale) :
                      /\ p \in DOMAIN sprite.surface.px
                      /\ sprite.surface.px[p] = sprite.palette[sprite.data[y][x]]

\* The 2x2 sprite ["01", "10"] rendered at scale 2: a 4x4 surface whose
\* bottom-right 2x2 block has the colour of "0".
C6_Witness ==
    /\ sprite.kind = "PixelSprite"
    /\ sprite.data = GridSquare
    /\ sprite.palette = PaletteMario
    /\ sprite.scale = 2
    /\ sprite.surface.w = 4 /\ sprite.surface.h = 4
    /\ sprite.surface.px[<<3, 3>>] = PaletteMario["0"]
    /\ sprite.surface.px[<<2, 0>>] = PaletteMario["1"]

\* The cells (column x, row y, from 0) whose symbol the palette lacks.
AbsentCells(data, palette) ==
    {c \in UNION {{<<x - 1, y - 1>> : x \in 1 .. Len(data[y])} : y \in 1 .. Len(data)} :
        data[c[2] + 1][c[1] + 1] \notin DOMAIN palette}

\* C7: a symbol missing from the palette is no error and is transparent: a
\* PixelSprite of non-empty data and scale >= 0 is built without an exception
\* and every pixel of the block of such a cell is the background; 
\* create_pixel_grid raises nothing and makes no square for such a cell.
C7_AbsentSymbolTransparent ==
    /\ (sprite.kind = "PixelSprite" /\ Len(sprite.data) >= 1 /\ sprite.scale >= 0) =>
          /\ sprite.err = "ok"
          /\ \A c \in AbsentCells(sprite.data, sprite.palette) :
                \A p \in Block(c[1], c[2], sprite.scale) \cap DOMAIN sprite.surface.px :
                    sprite.surface.px[p] = Background
    /\ sprite.kind = "VGroup" =>
          /\ sprite.err = "ok"
          /\ \A c \in AbsentCells(sprite.data, sprite.palette) :
                \A i \in DOMAIN sprite.squares :
                    <<sprite.squares[i].pixel_x, sprite.squares[i].pixel_y>> # c

\* A sprite with the symbol "3", which the goomba palette lacks, rendered at
\* scale 2: the block of the "3" in column 1, row 0 is on the surface.
C7_Witness ==
    /\ sprite.kind = "PixelSprite"
    /\ sprite.data = GridHat
    /\ sprite.palette = PaletteGoomba
    /\ sprite.scale = 2
    /\ sprite.err = "ok"
    /\ <<1, 0>> \in AbsentCells(sprite.data, sprite.palette)
    /\ Block(1, 0, 2) \subseteq DOMAIN sprite.surface.px

SameInputs(a, b) ==
    /\ a.kind = b.kind
    /\ a.data = b.data
    /\ a.palette = b.palette
    /\ a.scale = b.scale

C1_UpdateKeepsInvariant ==
    (call.op = "update" /\ call.result = "ok") =>
        /\ fps > 0
        /\ current_frame \in 0 .. Len(frames) - 1
        /\ ~FGe(time_accumulator, FDiv(1, fps))

\* The same on the sprites with at least one frame and a positive rate: there
\* update returns and the invariant holds.
UpdateInvariantOnValidSprites ==
    (call.op = "update" /\ Len(frames) >= 1 /\ fps >= 1) =>
        /\ call.result = "ok"
        /\ current_frame \in 0 .. Len(frames) - 1
        /\ ~FGe(time_accumulator, FDiv(1, fps))

\* A time below 2^-40 s: 0 up to floating tolerance.
NearZero(t) == t.hi = 0 /\ t.lo < 2^17

\* C2: update(k / fps) from an accumulator of 0 moves the index by k modulo
\* len(frames) and leaves the accumulator at 0 (here: below 2^-40).
C2_WholeFramesAdvance ==
    (call.op = "update" /\ fps > 0 /\ Len(frames) > 0
        /\ before.time_accumulator = FZero) =>
        \A k \in 0 .. MaxK :
            dts[Len(dts)] = FDiv(k, fps) =>
                /\ call.result = "ok"
                /\ current_frame = (before.current_frame + k) % Len(frames)
                /\ NearZero(time_accumulator)

\* The exact sum of the times of a sequence (not rounded).
RECURSIVE ExactSum(_)
ExactSum(ts) ==
    IF Len(ts) = 0 THEN FZero
    ELSE LET rest == ExactSum(Tail(ts))
         IN  Norm(ts[1].hi + rest.hi, ts[1].lo + rest.lo)

\* |a - b|
FDist(a, b) == IF FGe(a, b) THEN FSub(a, b) ELSE FSub(b, a)

\* C3: the updates made since construction, whose times sum to D (a sum that
\* is itself a float), leave the index that the single call update(D) on a
\* new sprite leaves, and the same accumulator (here: up to 2^-40).
C3_UpdatesAccumulate ==
    (call.op = "update" /\ call.result = "ok" /\ fps > 0 /\ Len(frames) > 0
        /\ Round(ExactSum(dts)) = ExactSum(dts)) =>
        LET once == update(FZero, 0, Len(frames), fps, ExactSum(dts))
        IN  /\ once.result = "ok"
            /\ once.current_frame = current_frame
            /\ NearZero(FDist(once.time_accumulator, time_accumulator))

\* k / f in exact arithmetic, rounded down and rounded up to a multiple of 2^-57.
FloorDiv(k, f) ==
    LET p1 == LongDiv(k % f, f, FracHi)
        p2 == LongDiv(p1.r, f, 30)
    IN  [hi |-> (k \div f) * 2^FracHi + p1.q, lo |-> p2.q]

CeilDiv(k, f) ==
    LET p1 == LongDiv(k % f, f, FracHi)
        p2 == LongDiv(p1.r, f, 30)
    IN  Norm((k \div f) * 2^FracHi + p1.q, p2.q + (IF p2.r > 0 THEN 1 ELSE 0))

\* floor(x * f) in exact arithmetic: the number of k >= 1 with k / f <= x.
ExactFrames(x, f) ==
    Cardinality({k \in 1 .. ((x.hi \div 2^FracHi) + 1) * f : FGe(x, CeilDiv(k, f))})

\* C13: from a state with 0 <= a < 1/fps and the index in range, update(dt)
\* returns, moves the index by floor((a + dt) * fps) modulo len(frames) and
\* leaves the accumulator at (a + dt) - floor((a + dt) * fps) / fps (here: up
\* to 2^-40), the floor and the remainder taken in exact arithmetic.
C13_UpdateAdvancesByFloor ==
    (call.op = "update" /\ fps > 0 /\ Len(frames) > 0
        /\ before.current_frame < Len(frames)
        /\ ~FGe(before.time_accumulator, CeilDiv(1, fps))) =>
        LET x == ExactSum(<<before.time_accumulator, dts[Len(dts)]>>)
            k == ExactFrames(x, fps)
        IN  /\ call.result = "ok"
            /\ current_frame = (before.current_frame + k) % Len(frames)
            /\ NearZero(FDist(time_accumulator, FSub(x, FloorDiv(k, fps))))

\* What does hold: the index moves by floor((a + dt) * fps) or by one frame
\* more or less, and the accumulator is the matching remainder.
UpdateAdvancesNearFloor ==
    (call.op = "update" /\ fps > 0 /\ Len(frames) > 0
        /\ before.current_frame < Len(frames)
        /\ ~FGe(before.time_accumulator, CeilDiv(1, fps))) =>
        LET x == ExactSum(<<before.time_accumulator, dts[Len(dts)]>>)
            k == ExactFrames(x, fps)
        IN  /\ call.result = "ok"
            /\ \E j \in {k - 1, k, k + 1} :
                  /\ j >= 0
                  /\ current_frame = (before.current_frame + j) % Len(frames)

\* C4: every call of update ends, and ends without an exception.
C4_UpdateTerminates ==
    call.op = "update" => call.result = "ok"

\* C5: no AnimatedSprite with fps <= 0 exists.
C5_FrameRatePositive ==
    call.op # "none" => fps > 0

(***************************************************************************)
(* Claims about AnimatedSprite.save_spritesheet (SpecSheet).               *)
(***************************************************************************)
RECURSIVE SumWidths(_, _)
SumWidths(fr, n) == IF n = 0 THEN 0 ELSE SumWidths(fr, n - 1) + fr[n].surface.w

RECURSIVE MaxHeight(_, _)
MaxHeight(fr, n) ==
    IF n = 0 THEN 0
    ELSE LET m == MaxHeight(fr, n - 1)
         IN  IF fr[n].surface.h > m THEN fr[n].surface.h ELSE m

\* C9: the sheet is as wide as the frames together and as high as the
\* highest frame.
C9_SheetSize ==
    (call.op = "save_spritesheet" /\ call.result = "ok") =>
        /\ sheet.w = SumWidths(frames, Len(frames))
        /\ sheet.h = MaxHeight(frames, Len(frames))

\* C10: every pixel of frame i is in the sheet, at the x-offset of the widths
\* of the frames before it and at its own y.
C10_FramesPlaced ==
    (call.op = "save_spritesheet" /\ call.result = "ok") =>
        \A i \in 1 .. Len(frames) : \A p \in DOMAIN frames[i].surface.px :
            LET q == <<SumWidths(frames, i - 1) + p[1], p[2]>>
            IN  /\ q \in DOMAIN sheet.px
                /\ sheet.px[q] = frames[i].surface.px[p]

\* Both hold when all frames have the size of the first one.
SheetOfEqualFrames ==
    (call.op = "save_spritesheet" /\ call.result = "ok"
        /\ \A i \in 1 .. Len(frames) :
              /\ frames[i].surface.w = frames[1].surface.w
              /\ frames[i].surface.h = frames[1].surface.h) =>
        /\ sheet.w = SumWidths(frames, Len(frames))
        /\ sheet.h = MaxHeight(frames, Len(frames))
        /\ \A i \in 1 .. Len(frames) : \A p \in DOMAIN frames[i].surface.px :
              LET q == <<SumWidths(frames, i - 1) + p[1], p[2]>>
              IN  q \in DOMAIN sheet.px /\ sheet.px[q] = frames[i].surface.px[p]

\* C11: save_spritesheet on an AnimatedSprite without frames raises (the
\* IndexError of self.frames[0]), and no sheet was made or written: the
\* sheet is still the absent one.
C11_EmptySheetFails ==
    (call.op = "save_spritesheet" /\ Len(frames) = 0) =>
        /\ call.result = "IndexError"
        /\ sheet = NoSurface

\* save_spritesheet was called on a sprite without frames, after an update
\* and not as the first call.
C11_Witness ==
    /\ call.op = "save_spritesheet"
    /\ Len(frames) = 0
    /\ call.result = "IndexError"
    /\ Len(dts) >= 1

(***************************************************************************)
(* Claims about the validation of inputs.                                  *)
(***************************************************************************)
\* C12: PixelSprite on invalid input (no rows, rows of unequal length, or
\* scale < 1) raises, and makes no surface.
C12_InvalidInputRejected ==
    (sprite.kind = "PixelSprite" /\ ~ValidSprite(sprite.data, sprite.scale)) =>
        /\ sprite.err # "ok"
        /\ sprite.surface = NoSurface

\* What does hold: the inputs the constructor rejects are the empty grid and
\* the negative scales, no others.
PixelSpriteRejects ==
    sprite.kind = "PixelSprite" =>
        (sprite.err # "ok" <=> (Len(sprite.data) = 0 \/ sprite.scale < 0))

(***************************************************************************)
(* Claims about the playback state (SpecSheet).                            *)
(***************************************************************************)
\* C14: a read of surface that returns, returns frames[current_frame].surface;
\* a read of surface and a call of save_spritesheet leave frames, fps,
\* current_frame and time_accumulator as they were (whether they return or
\* raise); update leaves frames and fps as they were.
C14_OnlyUpdateMovesPlayback ==
    [][ /\ (call'.op = "surface" /\ call'.result = "ok") =>
              shown' = frames[current_frame + 1].surface
        /\ call'.op \in {"surface", "save_spritesheet"} =>
              /\ frames' = frames
              /\ fps' = fps
              /\ current_frame' = current_frame
              /\ time_accumulator' = time_accumulator
        /\ call'.op = "update" =>
              /\ frames' = frames
              /\ fps' = fps ]_vars

\* The surface was read after updates had moved the sprite to its second
\* frame, of another size than the first, and after a sheet was written: the
\* read returned the second frame and the playback state is that the update
\* left.
C14_Witness ==
    /\ call.op = "surface"
    /\ call.result = "ok"
    /\ Len(frames) >= 2
    /\ current_frame = 1
    /\ before.current_frame = 1
    /\ Len(dts) >= 1
    /\ before.time_accumulator = time_accumulator
    /\ sheet # NoSurface
    /\ shown = frames[2].surface
    /\ shown # frames[1].surface

\* C15: every AnimatedSprite has at least one frame, and no call of update
\* or read of surface raises a division by zero or an index out of range.
C15_FramesNonEmpty ==
    call.op # "none" =>
        /\ Len(frames) >= 1
        /\ call.op \in {"update", "surface"} =>
              call.result \notin {"ZeroDivisionError", "IndexError"}

\* What does hold: with at least one frame, update and surface raise neither
\* error (at the default frame rate).
NoIndexErrorOnFrames ==
    (call.op \in {"update", "surface"} /\ Len(frames) >= 1) =>
        /\ call.result = "ok"
        /\ current_frame < Len(frames)
====
